---- MODULE Spec2Model ----
(***************************************************************************)
(* Model of reasoners/visualization: TreeSnapshot (tree_snapshot.py), the   *)
(* TreeLog adapters and the TreeLogEncoder (tree_log.py).                  *)
(*                                                                         *)
(* Python values are represented as follows.                               *)
(*   dict      a sequence of entries in insertion order; assigning to an   *)
(*             existing key replaces the entry in place (DictSet).         *)
(*   None      the integer NoneVal, which is no NodeId and no EdgeId.      *)
(*   EdgeData  a set of <<key, value>> pairs, at most one pair per key.    *)
(*   Node      [id, data, selected_edge]                                   *)
(*   Edge      [id, source, target, data]                                  *)
(***************************************************************************)
EXTENDS Integers, Sequences, FiniteSets, TLC

\* ------------------------------------------------------------------ bounds
\* Largest number of nodes handed to the TreeSnapshot constructor directly.
MaxNodes == 3
\* Largest number of nodes of a search tree.
MaxTree == 4
\* Largest number of edges handed to the TreeSnapshot constructor directly.
MaxEdges == 2
\* Largest number of children one expansion gives a node.
MaxKids == 3
\* Q and reward values are drawn from 0..MaxVal.
MaxVal == 1
\* Largest number of recorded MCTS iterations.
MaxIters == 2

\* Ids that nodes and edge endpoints may carry.  A node collection shorter
\* than MaxNodes leaves ids that an endpoint can name without the node having
\* been supplied.
Ids == 0..(MaxNodes - 1)

NoneVal == 0 - 1

VARIABLES
    \* ---- direct construction of a TreeSnapshot
    argNodes,    \* the `nodes` argument: a sequence of Node
    argEdges,    \* the `edges` argument: a sequence of Edge
    snapStatus,  \* "none" (not called), "ok" (object returned), "failed" (raised)
    snap,        \* the object returned, NoSnapshot unless snapStatus = "ok"
    \* ---- a search result and its conversion
    algo,        \* "mcts", "beam" or "dfs": the type of the search result
    outStates,   \* MCTS: the result carries tree_state_after_each_iter
    outTrace,    \* MCTS: the result carries trace_in_each_iter
    defaultFactory, \* the adapter is called without an edge_data_factory
    tree,        \* the search tree the algorithm holds
    recTrees,    \* tree_state_after_each_iter as recorded so far
    recTraces,   \* trace_in_each_iter as recorded so far
    request,     \* the result object handed to the last adapter call
    nodes,       \* the adapter's closure variable `nodes` after the last call
    edges,       \* the adapter's closure variable `edges` after the last call
    status,      \* "none", "ok" (a TreeLog was returned) or "failed" (raised)
    log,         \* the TreeLog returned by the last call: a sequence of snapshots
    calls,       \* number of adapter calls made on `request`: 0, 1 or 2
    prevStatus,  \* status of the call before the last one
    prevLog,     \* TreeLog returned by the call before the last one
    encoded      \* json.dumps(log, cls=TreeLogEncoder) once taken, else NotEncoded

snapVars == <<argNodes, argEdges, snapStatus, snap>>
convVars == <<algo, outStates, outTrace, defaultFactory, tree, recTrees, recTraces, request,
              nodes, edges, status, log, calls, prevStatus, prevLog, encoded>>
vars == <<argNodes, argEdges, snapStatus, snap, algo, outStates, outTrace, defaultFactory,
          tree, recTrees, recTraces,
          request, nodes, edges, status, log, calls, prevStatus, prevLog, encoded>>

\* ------------------------------------------------------------ Python dicts
\* Position of key k in dict d, 0 when absent.
DictIndex(d, k) ==
    IF \E i \in 1..Len(d) : d[i].id = k
    THEN CHOOSE i \in 1..Len(d) : d[i].id = k
    ELSE 0

\* d[k] = v for a dict of objects keyed by their id.
DictSet(d, k, v) ==
    IF DictIndex(d, k) = 0 THEN Append(d, v) ELSE [d EXCEPT ![DictIndex(d, k)] = v]

DictKeys(d) == {d[i].id : i \in 1..Len(d)}

DictGet(d, k) == d[DictIndex(d, k)]

\* {x.id: x for x in xs}
RECURSIVE DictOf(_, _)
DictOf(xs, d) ==
    IF xs = <<>> THEN d ELSE DictOf(Tail(xs), DictSet(d, Head(xs).id, Head(xs)))

\* --------------------------------------------------------- tree_snapshot.py
Node(id, data, sel) == [id |-> id, data |-> data, selected_edge |-> sel]

Edge(id, source, target, data) ==
    [id |-> id, source |-> source, target |-> target, data |-> data]

\* No encoding has been taken.
NotEncoded == [type |-> "none"]

NoSnapshot == [nodes |-> <<>>, edges |-> <<>>, parent |-> <<>>, children |-> <<>>]

\* self._parent after the loop over `edges`: a later edge to the same target
\* overwrites the earlier one.
ParentOf(es) ==
    [t \in {es[i].target : i \in 1..Len(es)} |->
        es[CHOOSE i \in 1..Len(es) :
              /\ es[i].target = t
              /\ \A j \in (i + 1)..Len(es) : es[j].target # t].source]

\* self._children after the loop over `edges`.
ChildrenOf(es) ==
    [s \in {es[i].source : i \in 1..Len(es)} |->
        {es[i].target : i \in {j \in 1..Len(es) : es[j].source = s}}]

\* self._children[node] of the defaultdict(set).
children(t, node_id) ==
    IF node_id \in DOMAIN t.children THEN t.children[node_id] ELSE {}

\* A set as a sequence, in increasing order (one iteration order of the set).
RECURSIVE SetToSeq(_)
SetToSeq(S) ==
    IF S = {} THEN <<>>
    ELSE LET m == CHOOSE x \in S : \A y \in S : x <= y
         IN <<m>> \o SetToSeq(S \ {m})

\* The while loop of _connected: the set `visited` when the queue is empty.
\* The set does not depend on the order in which a set of children is
\* appended to the queue.
RECURSIVE Visit(_, _, _)
Visit(t, queue, visited) ==
    IF queue = <<>> THEN visited
    ELSE LET node == queue[Len(queue)]
             seen == visited \cup {node}
         IN Visit(t, SubSeq(queue, 1, Len(queue) - 1) \o SetToSeq(children(t, node) \ seen),
                  seen)

connected(t) ==
    Cardinality(Visit(t, <<t.nodes[1].id>>, {})) = Len(t.nodes)

\* The object under construction, before the two assertions.
SnapshotFields(ns, es) ==
    [nodes |-> DictOf(ns, <<>>), edges |-> DictOf(es, <<>>),
     parent |-> ParentOf(es), children |-> ChildrenOf(es)]

\* TreeSnapshot.__init__ returns (TRUE) or raises AssertionError (FALSE).  With
\* no node the first assertion compares len(_parent) >= 0 with -1 and fails, so
\* _connected is never run on an empty dict.
Constructs(ns, es) ==
    LET t == SnapshotFields(ns, es)
    IN /\ Cardinality(DOMAIN t.parent) = Len(t.nodes) - 1
       /\ connected(t)

out_edges(t, node_id) ==
    SelectSeq(t.edges, LAMBDA e : e.source = node_id)

in_edges(t, node_id) ==
    SelectSeq(t.edges, LAMBDA e : e.target = node_id)

\* -------------------------------------------------------------- tree_log.py
\* A search tree is [root, kids, absent, edata, attrs]: kids[n] is the children
\* list of node n, absent holds the nodes whose `children` is None, edata[n] is
\* the mapping the caller's edge_data_factory returns for n, and attrs[n] holds
\* the attributes of n the default edge data factory reads.  A node's `id` is
\* its name n.

\* node_data_factory(node): the search states are empty, `if not n.state`.
node_data_factory(t, node) == {}

\* {**a, **b}: the entries of b replace those of a with the same key.
Merged(a, b) == {kv \in a : \A kw \in b : kw[1] # kv[1]} \cup b

\* get_reward_details(n) for the attributes n of a node: [none, val], the
\* mapping of reward_details if the node has the attribute, else that of
\* fast_reward_details, else None.
get_reward_details(n) ==
    IF n.has_reward_details THEN [none |-> FALSE, val |-> n.reward_details]
    ELSE IF n.has_fast_reward_details
    THEN [none |-> FALSE, val |-> n.fast_reward_details]
    ELSE [none |-> TRUE, val |-> {}]

\* default_edge_data_factory(n): [ok, data].  Unpacking None with ** raises
\* TypeError (ok = FALSE).
default_edge_data_factory(n) ==
    LET details == get_reward_details(n)
    IN IF details.none THEN [ok |-> FALSE, data |-> {}]
       ELSE [ok |-> TRUE,
             data |-> Merged({<<"Q", n.Q>>, <<"reward", n.reward>>}, details.val)]

\* edge_data_factory(child), the default one or the caller's: [ok, data].
edge_data_factory(t, child) ==
    IF defaultFactory THEN default_edge_data_factory(t.attrs[child])
    ELSE [ok |-> TRUE, data |-> t.edata[child]]

\* Faulty variant: edge ids counted from 1.
next_edge_id_from_one(es) == Len(es) + 1

\* EdgeId(len(edges))
next_edge_id(es) == Len(es)

\* all_nodes(node) on the accumulators acc = [ok, nodes, edges].  The MCTS
\* adapter returns at a node whose children is None (none_check); the other
\* two iterate it, which raises TypeError (ok = FALSE).
RECURSIVE all_nodes(_, _, _, _), all_children(_, _, _, _, _)
all_nodes(t, node, acc, none_check) ==
    LET acc1 == [acc EXCEPT !.nodes =
                    DictSet(@, node, Node(node, node_data_factory(t, node), NoneVal))]
    IN IF node \in t.absent
       THEN (IF none_check THEN acc1 ELSE [acc1 EXCEPT !.ok = FALSE])
       ELSE all_children(t, node, 1, acc1, none_check)

\* `for child in node.children`, from the i-th child on.
all_children(t, node, i, acc, none_check) ==
    IF i > Len(t.kids[node]) \/ ~acc.ok THEN acc
    ELSE LET child == t.kids[node][i]
             made == edge_data_factory(t, child)
             acc1 == [acc EXCEPT !.edges =
                         Append(@, Edge(next_edge_id(@), node, child, made.data))]
         IN IF ~made.ok THEN [acc EXCEPT !.ok = FALSE]
            ELSE all_children(t, node, i + 1, all_nodes(t, child, acc1, none_check),
                              none_check)

\* Faulty variant: the edge accumulator of the previous call is not reset.
StaleEdges == IF edges.is_list THEN edges.val ELSE <<>>

\* `edges = []` and `nodes = {}` before a walk.
NewEdges == <<>>

NewNodes == <<>>

\* edge.data.get(field, -float("inf")) as <<1, value>>, the default as <<0, 0>>:
\* the default is below every value.
edge_key(e, field) ==
    IF \E kv \in e.data : kv[1] = field
    THEN <<1, (CHOOSE kv \in e.data : kv[1] = field)[2]>>
    ELSE <<0, 0>>

KeyGreater(a, b) == a[1] > b[1] \/ (a[1] = b[1] /\ a[2] > b[2])

\* Faulty variant: the last of the elements with the largest key.
max_edge_last(es, field) ==
    es[CHOOSE i \in 1..Len(es) :
          /\ \A j \in 1..Len(es) : ~KeyGreater(edge_key(es[j], field), edge_key(es[i], field))
          /\ \A j \in (i + 1)..Len(es) : KeyGreater(edge_key(es[i], field), edge_key(es[j], field))]

\* max(es, key=...): the first element no other element's key exceeds.
max_edge(es, field) ==
    es[CHOOSE i \in 1..Len(es) :
          /\ \A j \in 1..Len(es) : ~KeyGreater(edge_key(es[j], field), edge_key(es[i], field))
          /\ \A j \in 1..(i - 1) : KeyGreater(edge_key(es[i], field), edge_key(es[j], field))]

\* Faulty variant: a node with a single child is skipped.
needs_max_many(t, node) ==
    node.selected_edge = NoneVal /\ Cardinality(children(t, node.id)) > 1

\* Faulty variant: an edge selected by the trace is not kept.
needs_max_always(t, node) == children(t, node.id) # {}

\* `node.selected_edge is None and tree.children(node.id)`
needs_max(t, node) ==
    node.selected_edge = NoneVal /\ children(t, node.id) # {}

\* Faulty variant: max() over all edges of the snapshot.
candidates_any(t, node_id) == t.edges

\* tree.out_edges(node.id), the edges max() chooses among.
candidates(t, node_id) == out_edges(t, node_id)

\* The loop over tree.nodes.values() that selects the edge with the highest
\* value of `field`; max() of no edge raises ValueError (ok = FALSE).
highlight_max(t, field) ==
    LET needing == {i \in 1..Len(t.nodes) : needs_max(t, t.nodes[i])}
    IN [ok |-> \A i \in needing : candidates(t, t.nodes[i].id) # <<>>,
        tree |-> [t EXCEPT !.nodes =
                    [i \in 1..Len(t.nodes) |->
                        IF i \in needing /\ candidates(t, t.nodes[i].id) # <<>>
                        THEN [t.nodes[i] EXCEPT !.selected_edge =
                                 max_edge(candidates(t, t.nodes[i].id), field).id]
                        ELSE t.nodes[i]]]]

\* The loop over the consecutive pairs of `trace`, from pair step_idx on.  r is
\* [ok, tree, edges]: edges is the binding of the closure variable `edges`, which
\* the inner `for edges in tree.out_edges(...)` rebinds to the edge at which it
\* stops.  nodes[in_node_id] raises KeyError for an id that is no node.
RECURSIVE highlight_trace(_, _, _)
highlight_trace(r, trace, step_idx) ==
    IF step_idx > Len(trace) - 1 \/ ~r.ok THEN r
    ELSE LET in_node_id == trace[step_idx]
             out_node_id == trace[step_idx + 1]
             oes == out_edges(r.tree, in_node_id)
             hit == IF \E j \in 1..Len(oes) : oes[j].target = out_node_id
                    THEN CHOOSE j \in 1..Len(oes) :
                            /\ oes[j].target = out_node_id
                            /\ \A k \in 1..(j - 1) : oes[k].target # out_node_id
                    ELSE 0
             at == DictIndex(r.tree.nodes, in_node_id)
             bound == IF oes = <<>> THEN r.edges
                      ELSE [is_list |-> FALSE,
                            val |-> IF hit # 0 THEN oes[hit] ELSE oes[Len(oes)]]
         IN IF hit = 0
            THEN highlight_trace([r EXCEPT !.edges = bound], trace, step_idx + 1)
            ELSE IF at = 0
            THEN [r EXCEPT !.ok = FALSE, !.edges = bound]
            ELSE highlight_trace(
                    [r EXCEPT !.edges = bound,
                              !.tree.nodes[at].selected_edge = oes[hit].id],
                    trace, step_idx + 1)

\* The walk from `root` and TreeSnapshot(list(nodes.values()), edges):
\* [ok, tree, edges].
walk_and_build(root_tree, none_check) ==
    LET acc == all_nodes(root_tree, root_tree.root,
                         [ok |-> TRUE, nodes |-> NewNodes, edges |-> NewEdges], none_check)
    IN IF acc.ok /\ Constructs(acc.nodes, acc.edges)
       THEN [ok |-> TRUE, tree |-> SnapshotFields(acc.nodes, acc.edges),
             edges |-> [is_list |-> TRUE, val |-> acc.edges]]
       ELSE [ok |-> FALSE, tree |-> NoSnapshot,
             edges |-> [is_list |-> TRUE, val |-> acc.edges]]

\* Faulty variant: the recorded tree states are ignored.
tree_states_final(req) == <<req.tree_state>>

\* The list the MCTS adapter iterates over.
tree_states(req) ==
    IF ~req.has_tree_states THEN <<req.tree_state>>
    ELSE req.tree_state_after_each_iter

\* `if mcts_results.trace_in_each_iter:` is false for None and for [].
has_trace(req) == req.has_trace /\ req.trace_in_each_iter # <<>>

\* One pass of the loop `for step in range(len(tree_states))`: [ok, tree, edges].
\* trace_in_each_iter[step] raises IndexError past the end of the list.
mcts_step(req, step) ==
    LET built == walk_and_build(tree_states(req)[step], TRUE)
        traced == IF ~built.ok THEN built
                  ELSE IF ~has_trace(req) THEN built
                  ELSE IF step > Len(req.trace_in_each_iter)
                  THEN [built EXCEPT !.ok = FALSE]
                  ELSE highlight_trace(built, req.trace_in_each_iter[step], 1)
        maxed == highlight_max(traced.tree, "Q")
    IN IF ~traced.ok THEN traced
       ELSE [ok |-> maxed.ok, tree |-> maxed.tree, edges |-> traced.edges]

\* Faulty variant: a failing step ends the loop and the snapshots appended so
\* far are returned.
RECURSIVE mcts_steps_partial(_, _, _)
mcts_steps_partial(req, step, r) ==
    IF step > Len(tree_states(req)) THEN r
    ELSE LET one == mcts_step(req, step)
         IN IF ~one.ok THEN r
            ELSE mcts_steps_partial(req, step + 1,
                                    [status |-> "ok", log |-> Append(r.log, one.tree),
                                     nodes |-> one.tree.nodes, edges |-> one.edges])

\* The loop over the steps from `step` on: r is [status, log, nodes, edges], the
\* snapshots appended so far and the closure variables (empty while no step
\* has bound them).  An exception leaves the function without a TreeLog.
RECURSIVE mcts_steps(_, _, _)
mcts_steps(req, step, r) ==
    IF step > Len(tree_states(req)) THEN r
    ELSE LET one == mcts_step(req, step)
         IN IF ~one.ok
            THEN [status |-> "failed", log |-> <<>>, nodes |-> one.tree.nodes,
                  edges |-> one.edges]
            ELSE mcts_steps(req, step + 1,
                            [status |-> "ok", log |-> Append(r.log, one.tree),
                             nodes |-> one.tree.nodes, edges |-> one.edges])

\* TreeLog.from_mcts_results(req): [status, log, nodes, edges].
from_mcts_results(req) ==
    mcts_steps(req, 1, [status |-> "ok", log |-> <<>>, nodes |-> <<>>,
                        edges |-> [is_list |-> TRUE, val |-> <<>>]])

\* The single snapshot of the beam-search and DFS adapters.
single_snapshot(root_tree) ==
    LET built == walk_and_build(root_tree, FALSE)
        maxed == highlight_max(built.tree, "reward")
    IN IF built.ok /\ maxed.ok
       THEN [status |-> "ok", log |-> <<maxed.tree>>, nodes |-> maxed.tree.nodes,
             edges |-> built.edges]
       ELSE [status |-> "failed", log |-> <<>>, nodes |-> built.tree.nodes,
             edges |-> built.edges]

\* TreeLog.from_beam_search_results(req): a single result is wrapped in a list
\* and the first result of the list is converted.
from_beam_search_results(req) == single_snapshot(req.results[1].tree)

\* TreeLog.from_dfs_results(req)
from_dfs_results(req) == single_snapshot(req.tree_state)

\* ----------------------------------------------------------- TreeLogEncoder
\* JSON values: null, a number, an object (a function from its keys, which
\* are strings, to JSON values) and an array.
JNull == [type |-> "null"]

JNumber(i) == [type |-> "number", value |-> i]

JObject(members) == [type |-> "object", members |-> members]

JArray(items) == [type |-> "array", items |-> items]

\* The key json.dumps writes for the int key i of a dict.
KeyOf(i) == ToString(i)

\* A NodeData or EdgeData dict: an object with the dict's keys.
encode_data(data) ==
    JObject([k \in {kv[1] : kv \in data} |->
                JNumber((CHOOSE kv \in data : kv[1] = k)[2])])

\* An int, or None as null.
encode_optional(v) == IF v = NoneVal THEN JNull ELSE JNumber(v)

\* Faulty variant: a node without selected edge has no such entry.
node_dict_sparse(o) ==
    IF o.selected_edge = NoneVal THEN [id |-> o.id, data |-> o.data] ELSE o

\* o.__dict__ of a TreeSnapshot.Node: the fields of the dataclass.
node_dict(o) == o

\* o.__dict__ of a TreeSnapshot.Edge.
edge_dict(o) == o

\* The object for the attribute dict d of a Node or an Edge.
encode_fields(d) ==
    JObject([k \in DOMAIN d |->
                IF k = "data" THEN encode_data(d[k]) ELSE encode_optional(d[k])])

encode_node(o) == encode_fields(node_dict(o))

encode_edge(o) == encode_fields(edge_dict(o))

\* The entry of dict d, keyed by ids, that is written under key k.
entry_at(d, k) == d[CHOOSE i \in 1..Len(d) : KeyOf(d[i].id) = k]

\* self.nodes: an object with one member per node.
encode_nodes(d) ==
    JObject([k \in {KeyOf(d[i].id) : i \in 1..Len(d)} |-> encode_node(entry_at(d, k))])

\* self.edges: an object with one member per edge.
encode_edges(d) ==
    JObject([k \in {KeyOf(d[i].id) : i \in 1..Len(d)} |-> encode_edge(entry_at(d, k))])

\* TreeSnapshot.__dict__(): the dict {"nodes": self.nodes, "edges": self.edges}.
snapshot_dict(t) == [nodes |-> t.nodes, edges |-> t.edges]

encode_snapshot(t) ==
    LET o == snapshot_dict(t)
    IN JObject([nodes |-> encode_nodes(o.nodes), edges |-> encode_edges(o.edges)])

\* json.dumps(l, cls=TreeLogEncoder) for a TreeLog l: {"logs": list(l)}.
encode_log(l) ==
    JObject([logs |-> JArray([k \in 1..Len(l) |-> encode_snapshot(l[k])])])

\* ------------------------------------------ direct construction: the caller
\* The caller's node collection: nodes with distinct ids, in any order.
AddNode(id) ==
    /\ snapStatus = "none"
    /\ argEdges = <<>>
    /\ Len(argNodes) < MaxNodes
    /\ \A i \in 1..Len(argNodes) : argNodes[i].id # id
    /\ argNodes' = Append(argNodes, Node(id, {}, NoneVal))
    /\ UNCHANGED <<argEdges, snapStatus, snap>>

\* The caller's edge collection: any endpoints; an edge id is either the next
\* unused one (its position) or 0, the id of the first edge.
AddEdge(id, source, target) ==
    /\ snapStatus = "none"
    /\ Len(argEdges) < MaxEdges
    /\ id \in {0, Len(argEdges)}
    /\ argEdges' = Append(argEdges, Edge(id, source, target, {}))
    /\ UNCHANGED <<argNodes, snapStatus, snap>>

\* TreeSnapshot(argNodes, argEdges)
Construct ==
    /\ snapStatus = "none"
    /\ IF Constructs(argNodes, argEdges)
       THEN /\ snapStatus' = "ok"
            /\ snap' = SnapshotFields(argNodes, argEdges)
       ELSE /\ snapStatus' = "failed"
            /\ snap' = NoSnapshot
    /\ UNCHANGED <<argNodes, argEdges>>

SnapInit ==
    /\ argNodes = <<>>
    /\ argEdges = <<>>
    /\ snapStatus = "none"
    /\ snap = NoSnapshot

\* No adapter call has been made.
NoCall ==
    /\ recTrees = <<>>
    /\ recTraces = <<>>
    /\ request = <<>>
    /\ nodes = <<>>
    /\ edges = [is_list |-> TRUE, val |-> <<>>]
    /\ status = "none"
    /\ log = <<>>
    /\ calls = 0
    /\ prevStatus = "none"
    /\ prevLog = <<>>
    /\ encoded = NotEncoded

\* No node and no edge collected yet, and no search.
InitSnap ==
    /\ SnapInit
    /\ algo = "mcts"
    /\ outStates = FALSE
    /\ outTrace = FALSE
    /\ defaultFactory = FALSE
    /\ tree = <<>>
    /\ NoCall

SnapNext ==
    \/ \E id \in Ids : AddNode(id) /\ UNCHANGED convVars
    \/ \E id \in 0..(MaxEdges - 1), s \in Ids, t \in Ids : AddEdge(id, s, t) /\ UNCHANGED convVars
    \/ Construct /\ UNCHANGED convVars

\* Direct use of the TreeSnapshot constructor with arbitrary arguments.
SpecSnap == InitSnap /\ [][SnapNext]_vars

\* ------------------------------------------------- the search and its result
\* The mappings an edge data factory returns: nothing, or Q and reward.
EdgeDataChoices ==
    {{}} \cup {{<<"Q", v>>, <<"reward", MaxVal - v>>} : v \in 0..MaxVal}

\* The attributes of a node that no factory reads.
PlainAttrs ==
    [Q |-> 0, reward |-> 0,
     has_reward_details |-> FALSE, reward_details |-> {},
     has_fast_reward_details |-> FALSE, fast_reward_details |-> {}]

\* The reward-detail attributes an MCTS node can carry: each of the two or
\* not.
DetailChoices == [final : BOOLEAN, fast : BOOLEAN]

\* The Q of the i-th child of an expansion: the values 0..MaxVal in turn.
ValueAt(i) == (i - 1) % (MaxVal + 1)

\* The attributes of an MCTS node with Q = v, reward = MaxVal - v and the
\* reward-detail attributes d; the finalized breakdown differs from the fast
\* one.
Attrs(v, d) ==
    [Q |-> v, reward |-> MaxVal - v,
     has_reward_details |-> d.final,
     reward_details |-> IF d.final THEN {<<"detail", 1>>} ELSE {},
     has_fast_reward_details |-> d.fast,
     fast_reward_details |-> IF d.fast THEN {<<"detail", 0>>} ELSE {}]

TreeSize(t) == Cardinality(DOMAIN t.kids)

\* A tree of the root alone.  An unexpanded MCTS node has children None, a
\* beam-search or DFS node an empty list.
RootOnly(a) ==
    [root |-> 0, kids |-> (0 :> <<>>), absent |-> IF a = "mcts" THEN {0} ELSE {},
     edata |-> (0 :> {}), attrs |-> (0 :> PlainAttrs)]

\* The nodes from the root down to node n.
RECURSIVE PathTo(_, _)
PathTo(t, n) ==
    IF n = t.root THEN <<n>>
    ELSE LET p == CHOOSE q \in DOMAIN t.kids : \E i \in 1..Len(t.kids[q]) : t.kids[q][i] = n
         IN Append(PathTo(t, p), n)

\* Leaf p with the children news appended, whose edge data are datas and
\* whose attributes are attrs.
Grown(t, p, news, datas, attrs, a) ==
    [root |-> t.root,
     kids |-> [n \in DOMAIN t.kids \cup {news[i] : i \in 1..Len(news)} |->
                  IF n = p THEN news ELSE IF n \in DOMAIN t.kids THEN t.kids[n] ELSE <<>>],
     absent |-> (t.absent \ {p}) \cup
                (IF a = "mcts" THEN {news[i] : i \in 1..Len(news)} ELSE {}),
     edata |-> [n \in DOMAIN t.kids \cup {news[i] : i \in 1..Len(news)} |->
                  IF n \in DOMAIN t.kids THEN t.edata[n]
                  ELSE datas[CHOOSE i \in 1..Len(news) : news[i] = n]],
     attrs |-> [n \in DOMAIN t.kids \cup {news[i] : i \in 1..Len(news)} |->
                  IF n \in DOMAIN t.kids THEN t.attrs[n]
                  ELSE attrs[CHOOSE i \in 1..Len(news) : news[i] = n]]]

\* The nodes at which the recorded path of an expansion of p can end: one of
\* the k new children, p itself without children or without a recorded path.
LastOf(p, size, k) ==
    IF outTrace /\ k > 0 THEN size..(size + k - 1) ELSE {p}

\* The search expands leaf p: the children get the next ids of the node
\* counter.  An MCTS run records after the iteration what its result is to
\* carry: the tree (outStates) and the path of the iteration (outTrace), which
\* runs from the root through p into the child `last` (to p without children).
Expansion(p, datas, attrs, last) ==
    LET size == TreeSize(tree)
        news == [i \in 1..Len(datas) |-> size + i - 1]
        grown == Grown(tree, p, news, datas, attrs, algo)
    IN /\ status = "none"
       /\ p \in DOMAIN tree.kids
       /\ IF algo = "mcts" THEN p \in tree.absent
          ELSE tree.kids[p] = <<>> /\ datas # <<>>
       /\ size + Len(datas) <= MaxTree
       /\ outStates => Len(recTrees) < MaxIters
       /\ outTrace => Len(recTraces) < MaxIters
       /\ last \in LastOf(p, size, Len(datas))
       /\ tree' = grown
       /\ recTrees' = IF outStates THEN Append(recTrees, grown) ELSE recTrees
       /\ recTraces' = IF outTrace THEN Append(recTraces, PathTo(grown, last)) ELSE recTraces
       /\ UNCHANGED <<algo, outStates, outTrace, defaultFactory, request, nodes, edges,
                      status, log, calls, prevStatus, prevLog, encoded>>

\* An expansion in a search whose result is converted with the caller's edge
\* data factory, which returns datas for the new children.
Expand(p, datas, last) ==
    /\ ~defaultFactory
    /\ Expansion(p, datas, [i \in 1..Len(datas) |-> PlainAttrs], last)

\* An expansion in an MCTS run whose result is converted with the default edge
\* data factory: the new children carry the attributes attrs.
ExpandScored(p, attrs, last) ==
    /\ defaultFactory
    /\ Expansion(p, [i \in 1..Len(attrs) |-> {}], attrs, last)

\* The MCTSResult of the search.
MctsResult ==
    [tree_state |-> tree,
     has_tree_states |-> outStates,
     tree_state_after_each_iter |-> recTrees,
     has_trace |-> outTrace,
     trace_in_each_iter |-> recTraces]

\* An adapter call returns.  The first call converts the search's result, the
\* second call the same object once more.
Returned(req, out) ==
    /\ request' = req
    /\ status' = out.status
    /\ log' = out.log
    /\ nodes' = out.nodes
    /\ edges' = out.edges
    /\ calls' = calls + 1
    /\ prevStatus' = status
    /\ prevLog' = log
    /\ encoded' = NotEncoded
    /\ UNCHANGED <<algo, outStates, outTrace, defaultFactory, tree, recTrees, recTraces>>

FromMctsResults ==
    /\ algo = "mcts"
    /\ calls \in {0, 1}
    /\ \E req \in {IF calls = 0 THEN MctsResult ELSE request} :
          \E out \in {from_mcts_results(req)} : Returned(req, out)

FromBeamSearchResults ==
    /\ algo = "beam"
    /\ calls \in {0, 1}
    /\ \E req \in {IF calls = 0 THEN [results |-> <<[tree |-> tree]>>] ELSE request} :
          \E out \in {from_beam_search_results(req)} : Returned(req, out)

FromDfsResults ==
    /\ algo = "dfs"
    /\ calls \in {0, 1}
    /\ \E req \in {IF calls = 0 THEN [tree_state |-> tree] ELSE request} :
          \E out \in {from_dfs_results(req)} : Returned(req, out)

\* The caller encodes the TreeLog it was returned: str(log), or json.dumps with
\* the TreeLogEncoder.
Encode ==
    /\ status = "ok"
    /\ encoded = NotEncoded
    /\ encoded' = encode_log(log)
    /\ UNCHANGED <<algo, outStates, outTrace, defaultFactory, tree, recTrees, recTraces,
                   request, nodes, edges, status, log, calls, prevStatus, prevLog>>

\* The leaves the search can still expand.
Expandable ==
    IF status # "none" \/ TreeSize(tree) >= MaxTree THEN {}
    ELSE IF Len(recTrees) >= MaxIters \/ Len(recTraces) >= MaxIters THEN {}
    ELSE IF algo = "mcts" THEN tree.absent
    ELSE {n \in DOMAIN tree.kids : tree.kids[n] = <<>>}

Init ==
    /\ SnapInit
    /\ algo \in {"mcts", "beam", "dfs"}
    /\ outStates \in BOOLEAN
    /\ outTrace \in BOOLEAN
    /\ algo # "mcts" => ~outStates /\ ~outTrace
    /\ defaultFactory = FALSE
    /\ tree = RootOnly(algo)
    /\ NoCall

Next ==
    \/ \E p \in Expandable : \E k \in 0..MaxKids :
          \E datas \in [1..k -> EdgeDataChoices] :
              \E last \in LastOf(p, TreeSize(tree), k) :
                  Expand(p, datas, last) /\ UNCHANGED snapVars
    \/ FromMctsResults /\ UNCHANGED snapVars
    \/ FromBeamSearchResults /\ UNCHANGED snapVars
    \/ FromDfsResults /\ UNCHANGED snapVars

\* A search result built by a search and converted by its adapter.
Spec == Init /\ [][Next]_vars

NextEncode ==
    \/ Next
    \/ Encode /\ UNCHANGED snapVars

\* A search result converted by its adapter and the TreeLog encoded.
SpecEncode == Init /\ [][NextEncode]_vars

\* An MCTS run whose nodes carry Q, reward and reward-detail attributes.
InitDefault ==
    /\ SnapInit
    /\ algo = "mcts"
    /\ outStates \in BOOLEAN
    /\ outTrace \in BOOLEAN
    /\ defaultFactory = TRUE
    /\ tree = RootOnly(algo)
    /\ NoCall

NextDefault ==
    \/ \E p \in Expandable : \E k \in 0..MaxKids :
          \E ds \in [1..k -> DetailChoices] :
              \E last \in LastOf(p, TreeSize(tree), k) :
                  /\ ExpandScored(p, [i \in 1..k |-> Attrs(ValueAt(i), ds[i])], last)
                  /\ UNCHANGED snapVars
    \/ FromMctsResults /\ UNCHANGED snapVars

\* An MCTS result converted with the default edge data factory.
SpecDefault == InitDefault /\ [][NextDefault]_vars

\* ================================================================= claims
\* Nodes of snapshot t reached from node r by following child links only.
ReachedFrom(t, r) == Visit(t, <<r>>, {})

\* Number of edges of snapshot t that end in node n.
InDegree(t, n) == Len(in_edges(t, n))

\* C1: a TreeSnapshot that was constructed has N >= 1 nodes and exactly N - 1
\* edges, exactly one node without an incoming edge and exactly one incoming
\* edge on every other node; any other input fails construction.
C1_TreeShape ==
    snapStatus = "ok" =>
        /\ Len(snap.nodes) >= 1
        /\ Len(snap.edges) = Len(snap.nodes) - 1
        /\ Cardinality({n \in DictKeys(snap.nodes) : InDegree(snap, n) = 0}) = 1
        /\ \A n \in DictKeys(snap.nodes) : InDegree(snap, n) <= 1

\* C2: in a constructed TreeSnapshot, following child links from the node
\* without an incoming edge visits every node of the snapshot and nothing else.
C2_RootReachesAll ==
    snapStatus = "ok" =>
        /\ \E r \in DictKeys(snap.nodes) : InDegree(snap, r) = 0
        /\ \A r \in DictKeys(snap.nodes) :
              InDegree(snap, r) = 0 => ReachedFrom(snap, r) = DictKeys(snap.nodes)

\* C3: in a constructed TreeSnapshot every edge starts and ends at a node of
\* the snapshot, and no input with an edge to or from a node that was not
\* supplied yields a TreeSnapshot.
C3_EndpointsExist ==
    snapStatus = "ok" =>
        /\ \A i \in 1..Len(snap.edges) :
              /\ snap.edges[i].source \in DictKeys(snap.nodes)
              /\ snap.edges[i].target \in DictKeys(snap.nodes)
        /\ \A i \in 1..Len(argEdges) :
              /\ argEdges[i].source \in DictKeys(argNodes)
              /\ argEdges[i].target \in DictKeys(argNodes)

\* C2 fails only on inputs on which C1 or C3 fails too.
C2_FailsOnlyWithC1C3 ==
    (C1_TreeShape /\ C3_EndpointsExist) => C2_RootReachesAll

\* ---------------------------------------------------- claims on the adapters
\* The trees the last adapter call had to convert, one per snapshot.
Sources ==
    IF algo = "mcts"
    THEN (IF request.has_tree_states THEN request.tree_state_after_each_iter
          ELSE <<request.tree_state>>)
    ELSE IF algo = "beam" THEN <<request.results[1].tree>>
    ELSE <<request.tree_state>>

\* The edge data field the adapter of the search maximises.
Field == IF algo = "mcts" THEN "Q" ELSE "reward"

\* The trace of snapshot k, empty when the result carries none.
TraceOf(k) ==
    IF algo = "mcts" /\ request.has_trace /\ k <= Len(request.trace_in_each_iter)
    THEN request.trace_in_each_iter[k]
    ELSE <<>>

\* The edges of snapshot t from a to b.
Joining(t, a, b) ==
    {t.edges[j] : j \in {i \in 1..Len(t.edges) :
                            t.edges[i].source = a /\ t.edges[i].target = b}}

\* The edges of snapshot k that join a consecutive pair of its trace and
\* start at node a.
TraceEdges(k, a) ==
    UNION {Joining(log[k], a, TraceOf(k)[i + 1]) :
              i \in {j \in 1..(Len(TraceOf(k)) - 1) : TraceOf(k)[j] = a}}

OutOf(t, a) == {t.edges[j] : j \in {i \in 1..Len(t.edges) : t.edges[i].source = a}}

HasField(e) == \E kv \in e.data : kv[1] = Field

ValueOf(e) == (CHOOSE kv \in e.data : kv[1] = Field)[2]

\* Edge e1 has a larger value than e2, a missing value being negative infinity.
Larger(e1, e2) == HasField(e1) /\ (~HasField(e2) \/ ValueOf(e1) > ValueOf(e2))

SameValue(e1, e2) == ~Larger(e1, e2) /\ ~Larger(e2, e1)

\* The position of child c among the children of node a in search tree src.
ChildPos(src, a, c) == CHOOSE i \in 1..Len(src.kids[a]) : src.kids[a][i] = c

\* The nodes of search tree src below n in pre-order, n first.
RECURSIVE PreOrder(_, _), PreOrderOf(_, _)
PreOrder(src, n) == <<n>> \o PreOrderOf(src, src.kids[n])

PreOrderOf(src, ns) ==
    IF ns = <<>> THEN <<>> ELSE PreOrder(src, Head(ns)) \o PreOrderOf(src, Tail(ns))

\* C4: in every snapshot of a returned TreeLog, the selected_edge of a node is
\* an edge of that snapshot whose source is the node.
C4_SelectedEdgeOwned ==
    status = "ok" =>
        \A k \in 1..Len(log) : \A i \in 1..Len(log[k].nodes) :
            LET n == log[k].nodes[i]
            IN n.selected_edge # NoneVal =>
                  \E e \in OutOf(log[k], n.id) : e.id = n.selected_edge

\* A returned MCTS snapshot in which one node's edge was selected by the trace
\* and another node's edge by the maximum pass.
C4_Witness ==
    /\ status = "ok"
    /\ \E k \in 1..Len(log) : \E i, j \in 1..Len(log[k].nodes) :
          /\ TraceEdges(k, log[k].nodes[i].id) # {}
          /\ TraceEdges(k, log[k].nodes[j].id) = {}
          /\ log[k].nodes[j].selected_edge # NoneVal

\* C5: a node with outgoing edges that the trace gave no selected edge gets the
\* outgoing edge with the largest field value (Q for MCTS, reward otherwise; a
\* missing field is negative infinity), among equal ones the edge with the
\* lowest id, which leads to the earliest such child in the children order.
C5_MaxEdgeChosen ==
    status = "ok" =>
        \A k \in 1..Len(log) : \A i \in 1..Len(log[k].nodes) :
            LET n == log[k].nodes[i]
                out == OutOf(log[k], n.id)
            IN (TraceEdges(k, n.id) = {} /\ out # {}) =>
                  \E e \in out :
                      /\ e.id = n.selected_edge
                      /\ \A f \in out : ~Larger(f, e)
                      /\ \A f \in out : SameValue(f, e) =>
                            /\ e.id <= f.id
                            /\ ChildPos(Sources[k], n.id, e.target)
                                  <= ChildPos(Sources[k], n.id, f.target)

\* The maximum pass chose an edge that is not the node's first edge, and broke
\* a tie between two edges of another value.
C5_Witness ==
    /\ status = "ok"
    /\ \E k \in 1..Len(log) : \E i \in 1..Len(log[k].nodes) :
          LET n == log[k].nodes[i]
              out == OutOf(log[k], n.id)
          IN /\ TraceEdges(k, n.id) = {}
             /\ \E e \in out : e.id = n.selected_edge /\ \E f \in out : f.id < e.id
             /\ \E e, f \in out : e.id # f.id /\ SameValue(e, f)

\* C6: in every returned snapshot a node has no selected_edge if and only if
\* it has no outgoing edge.
C6_SelectedIffOutEdges ==
    status = "ok" =>
        \A k \in 1..Len(log) : \A i \in 1..Len(log[k].nodes) :
            (log[k].nodes[i].selected_edge = NoneVal)
                <=> (OutOf(log[k], log[k].nodes[i].id) = {})

\* A returned snapshot with a leaf and with a node that has a single child.
C6_Witness ==
    /\ status = "ok"
    /\ \E k \in 1..Len(log) : \E i, j \in 1..Len(log[k].nodes) :
          /\ OutOf(log[k], log[k].nodes[i].id) = {}
          /\ Cardinality(OutOf(log[k], log[k].nodes[j].id)) = 1

\* C7: with a trace supplied, a node followed in trace k by a node it has an
\* edge to keeps that edge as selected_edge in snapshot k, whatever the Q of
\* its other edges.
C7_TraceEdgeKept ==
    (status = "ok" /\ algo = "mcts") =>
        \A k \in 1..Len(log) : \A i \in 1..Len(log[k].nodes) :
            \A e \in TraceEdges(k, log[k].nodes[i].id) :
                log[k].nodes[i].selected_edge = e.id

\* The trace selected an edge although another edge of the node has a larger Q.
C7_Witness ==
    /\ status = "ok"
    /\ \E k \in 1..Len(log) : \E i \in 1..Len(log[k].nodes) :
          \E e \in TraceEdges(k, log[k].nodes[i].id) :
              /\ log[k].nodes[i].selected_edge = e.id
              /\ \E f \in OutOf(log[k], log[k].nodes[i].id) : Larger(f, e)

\* C8: an adapter call returns a TreeLog with one snapshot per tree it had to
\* convert, in order, each with as many nodes as its tree and one edge fewer:
\* the recorded tree states of an MCTS result, its final tree state when none
\* are supplied, and a single tree for beam search and DFS.
C8_OneSnapshotPerTree ==
    calls > 0 =>
        /\ status = "ok"
        /\ Len(log) = Len(Sources)
        /\ \A k \in 1..Len(log) :
              /\ DictKeys(log[k].nodes) = DOMAIN Sources[k].kids
              /\ Len(log[k].nodes) = TreeSize(Sources[k])
              /\ Len(log[k].edges) = TreeSize(Sources[k]) - 1
        /\ algo \in {"beam", "dfs"} => Len(log) = 1
        /\ (algo = "mcts" /\ ~request.has_tree_states) =>
              Len(log) = 1 /\ Sources[1] = request.tree_state

\* An MCTS result with recorded tree states of growing size was converted.
C8_Witness ==
    /\ status = "ok"
    /\ algo = "mcts"
    /\ request.has_tree_states
    /\ Len(log) = MaxIters
    /\ \A k \in 1..(Len(log) - 1) : Len(log[k].nodes) < Len(log[k + 1].nodes)

C10_IdIsVisitIndex ==
    status = "ok" =>
        \A k \in 1..Len(log) :
            LET pre == PreOrder(Sources[k], Sources[k].root)
            IN \A i \in 1..Len(pre) :
                  \E j \in 1..Len(log[k].nodes) :
                      /\ log[k].nodes[j].id = pre[i]
                      /\ log[k].nodes[j].id = i - 1

\* C10 as amended: the node visited k-th keeps the id its search node carries;
\* the link traversed k-th (counting from 0) gets EdgeId k and leads to the
\* node visited (k+1)-th, in every snapshot of the TreeLog anew.
C10_IdsFromResult ==
    status = "ok" =>
        \A k \in 1..Len(log) :
            LET pre == PreOrder(Sources[k], Sources[k].root)
            IN /\ Len(log[k].nodes) = Len(pre)
               /\ \A i \in 1..Len(pre) : log[k].nodes[i].id = pre[i]
               /\ Len(log[k].edges) = Len(pre) - 1
               /\ \A j \in 1..Len(log[k].edges) :
                     /\ log[k].edges[j].id = j - 1
                     /\ log[k].edges[j].target = pre[j + 1]
                     /\ \E c \in 1..Len(Sources[k].kids[log[k].edges[j].source]) :
                           Sources[k].kids[log[k].edges[j].source][c] = pre[j + 1]

\* A TreeLog of two snapshots whose second tree is not numbered in pre-order.
C10_Witness ==
    /\ status = "ok"
    /\ Len(log) > 1
    /\ Len(log[1].edges) > 0
    /\ \E i \in 1..Len(log[2].nodes) : log[2].nodes[i].id # i - 1

\* ------------------------------------- claims on the default edge data factory
\* Search tree src has a node below the root that carries neither
\* reward_details nor fast_reward_details.
Lacking(src) ==
    \E n \in DOMAIN src.kids \ {src.root} :
        ~src.attrs[n].has_reward_details /\ ~src.attrs[n].has_fast_reward_details

\* C11: an adapter call returns a TreeLog with a snapshot for every step or
\* returns nothing: when step k of an MCTS conversion fails, the call fails as
\* a whole and no TreeLog with the snapshots of the steps before k is returned.
C11_AllOrNothing ==
    calls > 0 =>
        IF \E k \in 1..Len(Sources) : Lacking(Sources[k])
        THEN status = "failed" /\ log = <<>>
        ELSE status = "ok" /\ Len(log) = Len(Sources)

\* A conversion failed at its second step, after a first step whose tree has
\* edges and converts.
C11_Witness ==
    /\ calls > 0
    /\ status = "failed"
    /\ Len(Sources) > 1
    /\ TreeSize(Sources[1]) > 1
    /\ ~Lacking(Sources[1])
    /\ Lacking(Sources[2])

\* The edge data the default factory is to give the edge into node n of search
\* tree src: Q, reward and the finalized breakdown, the fast one without a
\* finalized one, none without both.
DataFor(src, n) ==
    LET a == src.attrs[n]
    IN {<<"Q", a.Q>>, <<"reward", a.reward>>}
          \cup (IF a.has_reward_details THEN a.reward_details
                ELSE IF a.has_fast_reward_details THEN a.fast_reward_details
                ELSE {})

\* Every edge of the returned TreeLog carries the data of its target node.
DataFromAttrs ==
    \A k \in 1..Len(log) : \A i \in 1..Len(log[k].edges) :
        log[k].edges[i].data = DataFor(Sources[k], log[k].edges[i].target)

\* C14: with the default edge data factory an MCTS conversion of a well-formed
\* tree never fails for a missing reward-detail field: the edge data holds Q,
\* reward and the breakdown of the finalized field, else of the fast one, and
\* with neither field the conversion still succeeds.
C14_DetailsOptional ==
    calls > 0 => (status = "ok" /\ DataFromAttrs)

\* What the default factory does give: a conversion that succeeds carries on
\* every edge Q, reward and the preferred breakdown, and it succeeds exactly
\* when every node below the root has one of the two fields.
C14_DetailsWhenPresent ==
    calls > 0 =>
        /\ status = "ok" => DataFromAttrs
        /\ status = "ok" <=> \A k \in 1..Len(Sources) : ~Lacking(Sources[k])

\* ------------------------------------------------------ claims on the encoder
\* Object o has exactly the keys ks.
HasKeys(o, ks) == o.type = "object" /\ DOMAIN o.members = ks

\* Object o is the data mapping `data`.
IsData(o, data) ==
    /\ HasKeys(o, {kv[1] : kv \in data})
    /\ \A kv \in data : o.members[kv[1]] = [type |-> "number", value |-> kv[2]]

\* JSON value j is the integer v, null for None.
IsOptional(j, v) ==
    IF v = NoneVal THEN j = [type |-> "null"] ELSE j = [type |-> "number", value |-> v]

\* Entry j of the array "logs" is snapshot t.
IsSnapshot(j, t) ==
    /\ HasKeys(j, {"nodes", "edges"})
    /\ HasKeys(j.members["nodes"], {ToString(t.nodes[i].id) : i \in 1..Len(t.nodes)})
    /\ HasKeys(j.members["edges"], {ToString(t.edges[i].id) : i \in 1..Len(t.edges)})
    /\ \A i \in 1..Len(t.nodes) :
          LET n == t.nodes[i]
              o == j.members["nodes"].members[ToString(n.id)]
          IN /\ HasKeys(o, {"id", "data", "selected_edge"})
             /\ IsOptional(o.members["id"], n.id)
             /\ IsData(o.members["data"], n.data)
             /\ IsOptional(o.members["selected_edge"], n.selected_edge)
    /\ \A i \in 1..Len(t.edges) :
          LET e == t.edges[i]
              o == j.members["edges"].members[ToString(e.id)]
          IN /\ HasKeys(o, {"id", "source", "target", "data"})
             /\ IsOptional(o.members["id"], e.id)
             /\ IsOptional(o.members["source"], e.source)
             /\ IsOptional(o.members["target"], e.target)
             /\ IsData(o.members["data"], e.data)

\* The encoding taken of the TreeLog has the shape of the wire format.
EncodedShape ==
    encoded # NotEncoded =>
        /\ HasKeys(encoded, {"logs"})
        /\ encoded.members["logs"].type = "array"
        /\ Len(encoded.members["logs"].items) = Len(log)
        /\ \A k \in 1..Len(log) : IsSnapshot(encoded.members["logs"].items[k], log[k])

\* C12: the encoding of a TreeLog is an object with the single key "logs"
\* whose array has one entry per snapshot in order; an entry has exactly the
\* keys nodes and edges, a node object exactly id, data and selected_edge (null
\* when unset), an edge object exactly id, source, target and data; taking the
\* encoding changes neither the TreeLog nor its snapshots.
C12_EncodedAsWireFormat ==
    /\ []EncodedShape
    /\ [][(encoded = NotEncoded /\ encoded' # NotEncoded) => log' = log]_vars

\* A TreeLog of two snapshots was encoded, with a node without selected edge,
\* a node with one, and an edge with data.
C12_Witness ==
    /\ encoded # NotEncoded
    /\ Len(log) > 1
    /\ \E i, j \in 1..Len(log[2].nodes) :
          /\ log[2].nodes[i].selected_edge = NoneVal
          /\ log[2].nodes[j].selected_edge # NoneVal
    /\ \E i \in 1..Len(log[2].edges) : log[2].edges[i].data # {}

\* ------------------------------------------- claims on the order of the nodes
\* The nodes reached from the set S along the edges es, in either direction.
RECURSIVE Linked(_, _)
Linked(S, es) ==
    LET more == S \cup {es[i].target : i \in {j \in 1..Len(es) : es[j].source \in S}}
                  \cup {es[i].source : i \in {j \in 1..Len(es) : es[j].target \in S}}
    IN IF more = S THEN S ELSE Linked(more, es)

\* The node collection ns and the edge collection es are a tree: distinct
\* ids, one edge fewer than nodes, every endpoint a node, one node without
\* incoming edge and one incoming edge on every other node, all nodes linked.
ValidTree(ns, es) ==
    /\ Len(ns) >= 1
    /\ \A i, j \in 1..Len(ns) : ns[i].id = ns[j].id => i = j
    /\ \A i, j \in 1..Len(es) : es[i].id = es[j].id => i = j
    /\ Len(es) = Len(ns) - 1
    /\ \A i \in 1..Len(es) :
          es[i].source \in DictKeys(ns) /\ es[i].target \in DictKeys(ns)
    /\ Cardinality({n \in DictKeys(ns) :
                       \A i \in 1..Len(es) : es[i].target # n}) = 1
    /\ \A n \in DictKeys(ns) :
          Cardinality({i \in 1..Len(es) : es[i].target = n}) <= 1
    /\ Linked({ns[1].id}, es) = DictKeys(ns)

\* C13: construction accepts every valid tree whatever the order in which
\* its nodes are supplied, a collection whose first node is not the root
\* included.
C13_AnyNodeOrder ==
    (snapStatus # "none" /\ ValidTree(argNodes, argEdges)) => snapStatus = "ok"

\* What the constructor does accept: a valid tree whose first node is the
\* node without incoming edge.
C13_RootFirstAccepted ==
    (/\ snapStatus # "none"
     /\ ValidTree(argNodes, argEdges)
     /\ \A i \in 1..Len(argEdges) : argEdges[i].target # argNodes[1].id)
        => snapStatus = "ok"

====
